---- MODULE Spec2Model ----
(***************************************************************************)
(* Model of the college-football Monte Carlo simulator:                     *)
(*   src/simulator/game_state.py  (GameState)                               *)
(*   src/simulator/simulate.py    (Simulator: the per-play event loop)      *)
(*   src/runner.py                (simulate_full_game: the batch driver)    *)
(*   src/models/*.py              (the probability oracles)                 *)
(*                                                                         *)
(* Conventions.                                                            *)
(*  - gs is the GameState object; every GameState method is an operator    *)
(*    from a GameState record to a GameState record, so a handler that     *)
(*    calls several mutators in a row is their composition.                *)
(*  - Yardage (yards_to_goal, distance) is held in units of 1/Scale yard,  *)
(*    because the half-the-distance penalty divides by two with Python's   *)
(*    true division and so produces halves, quarters, ... of a yard.       *)
(*    Y(n) is n whole yards.                                               *)
(*  - np.nan (the value of down / distance / yards_to_goal before the      *)
(*    first kickoff) is the sentinel nan; arithmetic on it yields nan and  *)
(*    every comparison with it is false, as in IEEE arithmetic.            *)
(*  - pct_game_played is held as its numerator over 3600.                  *)
(*  - diff_time_ratio = score_diff * exp(4 * pct_game_played) is held as   *)
(*    the pair of arguments it was computed from (see DiffTimeRatio).      *)
(*  - Every random draw (np.random.*, an oracle's prediction) is a         *)
(*    nondeterministic choice with \E from a small set of outcomes.        *)
(***************************************************************************)
EXTENDS Integers, Sequences, FiniteSets, TLC

VARIABLES
    gs,             \* the GameState object shared by all replays of a batch
    initial_state,  \* GameState.initial_state, the snapshot taken at construction
    next_action,    \* Simulator.next_action
    prev_action,    \* Simulator.prev_action
    pc,             \* position of the batch driver / of Simulator.run
    result,         \* the value run() returned to the batch driver
    outcomes,       \* runner.py: the list of values returned by run()
    flags           \* number of penalties drawn so far in this replay (model bound)

vars == <<gs, initial_state, next_action, prev_action, pc, result, outcomes, flags>>

(***************************************************************************)
(* Bounds of the model.                                                    *)
(***************************************************************************)
\* seconds_remaining the GameState is constructed with
StartSeconds == 5
\* n_simulations of the batch driver
NSimulations == 2
\* number of binary digits kept after the point in a yardage
FracBits == 1
\* number of penalties the penalty oracle draws in one replay
MaxPenalties == 2
\* total points put on the board by direct calls of the GameState mutators
MaxScore == 6
\* calls of increment_play_count by direct calls of the GameState mutators
MaxPlayCount == 2
\* largest score of a team when the try-attempt decision is consulted
MaxTryScore == 24

(***************************************************************************)
(* Program constants.                                                      *)
(***************************************************************************)
GameSeconds == 3600
FieldLength == 100
FirstDownDistance == 10
RunYardsGained == 4
RunSecondsUsed == 7
PassYardsGained == 6
PassSecondsUsed == 7
KneelSecondsUsed == 3
KneelRunoff == 40
RegularRunoff == 25
MaxFgModelYards == 48
nan == -1000000
None == "None"
\* values returned by run(): <<>> is Python's None, <<v>> the int v
ReturnNone == <<>>
ReturnInt(v) == <<v>>

Scale == 2 ^ FracBits
Y(n) == n * Scale

(***************************************************************************)
(* IEEE-style helpers for values that may be nan.                          *)
(***************************************************************************)
IsNan(x) == x = nan
Plus(x, d) == IF IsNan(x) \/ IsNan(d) THEN nan ELSE x + d
Minus(x, d) == IF IsNan(x) \/ IsNan(d) THEN nan ELSE x - d
Gt(x, c) == ~IsNan(x) /\ ~IsNan(c) /\ x > c
Le(x, c) == ~IsNan(x) /\ ~IsNan(c) /\ x <= c
Eq(x, c) == ~IsNan(x) /\ ~IsNan(c) /\ x = c
\* Python's min(a, b): b if b < a else a
Min(a, b) == IF ~IsNan(a) /\ ~IsNan(b) /\ b < a THEN b ELSE a
Max(a, b) == IF ~IsNan(a) /\ ~IsNan(b) /\ b > a THEN b ELSE a
\* int(x) of a yardage: truncation toward zero, result in whole yards
TruncYards(x) == IF x >= 0 THEN x \div Scale ELSE -((-x) \div Scale)

(***************************************************************************)
(* GameState: derived quantities.                                          *)
(***************************************************************************)
\* score_diff * np.exp(4 * pct_game_played).  exp of a non-zero rational is
\* irrational, so two products with non-zero score_diff are equal exactly
\* when both arguments are equal; with score_diff = 0 the product is 0.
DiffTimeRatio(score_diff, pct) ==
    IF score_diff = 0 THEN <<0, 0>> ELSE <<score_diff, pct>>

update_score_diff(g) ==
    LET offense == IF g.possession = "home" THEN g.home ELSE g.away
        defense == IF g.possession = "home" THEN g.away ELSE g.home
    IN  [g EXCEPT !.score_diff = offense.score - defense.score]

\* seconds_remaining is an int in every call of the constructor, so the
\* "is not None" branch is the one taken
update_pct_game_played(g) ==
    [g EXCEPT !.pct_game_played = GameSeconds - g.seconds_remaining]

update_diff_time_ratio(g) ==
    [g EXCEPT !.diff_time_ratio = DiffTimeRatio(g.score_diff, g.pct_game_played)]

(***************************************************************************)
(* GameState: getters.                                                     *)
(***************************************************************************)
get_possession(g) == g.possession
get_score_diff(g) == g.score_diff
get_pct_game_played(g) == g.pct_game_played
get_diff_time_ratio(g) == g.diff_time_ratio
get_play_count(g) == g.num_plays_on_drive
get_offense_timeouts(g) ==
    IF g.possession = "home" THEN g.home.timeouts ELSE g.away.timeouts
get_offense_score(g) ==
    IF g.possession = "home" THEN g.home.score ELSE g.away.score
offense_is_power_five(g) ==
    IF g.possession = "home" THEN g.home.is_power_five ELSE g.away.is_power_five
get_offense_division(g) ==
    IF g.possession = "home" THEN g.home.division ELSE g.away.division
get_offense_elo_rating(g) ==
    IF g.possession = "home" THEN g.home.elo_rating ELSE g.away.elo_rating
get_defense_score(g) ==
    IF g.possession = "home" THEN g.away.score ELSE g.home.score
\* variant: reads the team in possession
get_defense_timeouts_same_side(g) ==
    IF g.possession = "home" THEN g.home.timeouts ELSE g.away.timeouts

get_defense_timeouts(g) ==
    IF g.possession = "home" THEN g.away.timeouts ELSE g.home.timeouts
defense_is_power_five(g) ==
    IF g.possession = "home" THEN g.away.is_power_five ELSE g.home.is_power_five
get_defense_division(g) ==
    IF g.possession = "home" THEN g.away.division ELSE g.home.division
get_defense_elo_rating(g) ==
    IF g.possession = "home" THEN g.away.elo_rating ELSE g.home.elo_rating
get_yards_to_goal(g) == g.yards_to_goal
get_seconds_remaining(g) == g.seconds_remaining
get_down(g) == g.down
get_distance(g) == g.distance
clock_is_rolling(g) == g.clock_rolling

(***************************************************************************)
(* GameState: setters.                                                     *)
(***************************************************************************)
\* variant: the test is inverted, so a different value is never stored
set_possession_inverted(g, value) ==
    IF g.possession = value
    THEN [update_diff_time_ratio(update_score_diff([g EXCEPT !.possession = value]))
            EXCEPT !.num_plays_on_drive = 0]
    ELSE g

set_possession(g, value) ==
    IF g.possession # value
    THEN [update_diff_time_ratio(update_score_diff(
              [g EXCEPT !.possession = value]))
            EXCEPT !.num_plays_on_drive = 0]
    ELSE g

\* variant: the possession flips but the score difference is not recomputed
switch_possession_stale(g) ==
    [g EXCEPT !.possession = IF g.possession = "home" THEN "away" ELSE "home",
              !.num_plays_on_drive = 0]

\* variant: the else branch is missing, so only home hands the ball over
switch_possession_one_way(g) ==
    LET g1 == [g EXCEPT !.possession = IF @ = "home" THEN "away" ELSE @]
    IN  [update_diff_time_ratio(update_score_diff(g1)) EXCEPT !.num_plays_on_drive = 0]

switch_possession(g) ==
    [update_diff_time_ratio(update_score_diff(
        [g EXCEPT !.possession = IF g.possession = "home" THEN "away" ELSE "home"]))
      EXCEPT !.num_plays_on_drive = 0]

set_down(g, value) == [g EXCEPT !.down = value]
set_distance(g, value) == [g EXCEPT !.distance = value]
set_yards_to_goal(g, value) == [g EXCEPT !.yards_to_goal = value]
stop_clock(g) == [g EXCEPT !.clock_rolling = FALSE]
start_clock(g) == [g EXCEPT !.clock_rolling = TRUE]

\* variant: the test for a remaining timeout is missing
decrement_offense_timeouts_unguarded(g) ==
    [g EXCEPT !.home.timeouts = IF g.possession = "home" THEN @ - 1 ELSE @,
              !.away.timeouts = IF g.possession = "home" THEN @ ELSE @ - 1,
              !.clock_rolling = FALSE]

decrement_offense_timeouts(g) ==
    IF get_offense_timeouts(g) > 0
    THEN [(IF g.possession = "home"
           THEN [g EXCEPT !.home.timeouts = @ - 1]
           ELSE [g EXCEPT !.away.timeouts = @ - 1])
            EXCEPT !.clock_rolling = FALSE]
    ELSE g

decrement_defense_timeouts(g) ==
    IF get_defense_timeouts(g) > 0
    THEN [(IF g.possession = "home"
           THEN [g EXCEPT !.away.timeouts = @ - 1]
           ELSE [g EXCEPT !.home.timeouts = @ - 1])
            EXCEPT !.clock_rolling = FALSE]
    ELSE g

increment_offense_score(g, value) ==
    update_diff_time_ratio(update_score_diff(
        [g EXCEPT !.home.score = @ + (IF g.possession = "home" THEN value ELSE 0),
                  !.away.score = @ + (IF g.possession = "away" THEN value ELSE 0)]))

\* variant: the branches are not exchanged, the points go to the offense
increment_defense_score_same_side(g, value) ==
    update_diff_time_ratio(update_score_diff(
        [g EXCEPT !.home.score = @ + (IF g.possession = "home" THEN value ELSE 0),
                  !.away.score = @ + (IF g.possession = "away" THEN value ELSE 0)]))

increment_defense_score(g, value) ==
    update_diff_time_ratio(update_score_diff(
        [g EXCEPT !.away.score = @ + (IF g.possession = "home" THEN value ELSE 0),
                  !.home.score = @ + (IF g.possession = "away" THEN value ELSE 0)]))

increment_play_count(g) == [g EXCEPT !.num_plays_on_drive = @ + 1]

\* variant: the value is added to the clock instead of subtracted
decrement_seconds_remaining_added(g, value) ==
    update_diff_time_ratio(update_pct_game_played(
        [g EXCEPT !.seconds_remaining = Max(0, g.seconds_remaining + value)]))

\* variant: the result is not clamped at 0
decrement_seconds_remaining_unclamped(g, value) ==
    update_diff_time_ratio(update_pct_game_played(
        [g EXCEPT !.seconds_remaining = g.seconds_remaining - value]))

decrement_seconds_remaining(g, value) ==
    update_diff_time_ratio(update_pct_game_played(
        [g EXCEPT !.seconds_remaining = Max(0, g.seconds_remaining - value)]))

(***************************************************************************)
(* GameState methods that simulate.py calls but game_state.py does not     *)
(* define: each does to its field what its name says.                      *)
(***************************************************************************)
add_to_yards_to_goal(g, value) == [g EXCEPT !.yards_to_goal = Plus(@, value)]
add_to_distance(g, value) == [g EXCEPT !.distance = Plus(@, value)]
increment_down(g) == [g EXCEPT !.down = Plus(@, 1)]

(***************************************************************************)
(* GameState: construction, snapshot and reset.                            *)
(***************************************************************************)
\* GameState.__init__; the teams' ratings, divisions and timeouts are the
\* ones runner.py passes
NewGameState(possession, home_score, away_score, seconds_remaining, down, distance, yards_to_goal, clock_rolling) ==
    update_diff_time_ratio(update_pct_game_played(update_score_diff(
        [possession         |-> possession,
         home               |-> [score |-> home_score, elo_rating |-> 2500, timeouts |-> 3,
                                 division |-> "FBS", is_power_five |-> TRUE],
         away               |-> [score |-> away_score, elo_rating |-> 500, timeouts |-> 3,
                                 division |-> "FCS", is_power_five |-> FALSE],
         seconds_remaining  |-> seconds_remaining,
         down               |-> down,
         distance           |-> distance,
         yards_to_goal      |-> yards_to_goal,
         clock_rolling      |-> clock_rolling,
         num_plays_on_drive |-> 0,
         score_diff         |-> 0,
         pct_game_played    |-> 0,
         diff_time_ratio    |-> <<0, 0>>])))

\* the GameState runner.py builds, except for seconds_remaining, which is
\* the bound StartSeconds there
GameState(seconds_remaining) ==
    NewGameState(None, 0, 0, seconds_remaining, nan, nan, nan, FALSE)

\* the keys of the initial_state dict (weather, elevation and neutral_site
\* are constant per game and not part of the modelled state)
SnapshotKeys ==
    {"possession", "home", "away", "seconds_remaining", "down", "distance",
     "yards_to_goal", "clock_rolling", "score_diff", "pct_game_played",
     "diff_time_ratio", "num_plays_on_drive"}

\* variant: the snapshot holds the raw fields only
cache_initial_state_raw_only(g) ==
    [k \in SnapshotKeys \ {"score_diff", "pct_game_played", "diff_time_ratio"} |-> g[k]]

\* home.copy() / away.copy(): a record is a value, so the copy is the record
cache_initial_state(g) == [k \in SnapshotKeys |-> g[k]]

\* setattr(self, k, v) for every key of the snapshot (dicts copied)
reset(g, snapshot) ==
    [k \in DOMAIN g |-> IF k \in DOMAIN snapshot THEN snapshot[k] ELSE g[k]]

(***************************************************************************)
(* Oracle outcomes (src/models/*.py).  The trained classifiers and the     *)
(* empirical tables are data; the model draws each prediction from a small *)
(* set of the values its code can return.                                  *)
(***************************************************************************)
\* Kickoff.predict_kickoff_ytg: (ytg, seconds_used, recovery_team); a regular
\* kick is always recovered by 'defense' (the receiving team), an onside kick
\* by either team
KickoffOutcomes ==
    {<<75, 0, "defense">>, <<97, 1, "defense">>, <<3, 1, "defense">>,
     <<0, 2, "defense">>, <<52, 1, "offense">>}

\* Penalty.predict_penalty_yards: 0 or one of yardage_bins
PenaltyYards == {0, 5, 10, 15}

\* values of the yards_lost columns of the sack tables (whole yards)
SackYardsSamples == {2, 7}
\* int(truncnorm(2.0, 7.0).rvs())
SackSeconds == {3, 5}
\* Sack.predict_sack_fumble_recovery_team
RecoveryTeams == {"offense", "defense"}
\* (q025, q50, q975) predicted by the blocked-kick yards-gained regressors
\* (whole yards); the three regressors are independent models
YardsGainedQuantiles == {<<-12, -3, 9>>, <<4, 4, 4>>, <<2, -1, 6>>}
\* (q025, q50, q975) predicted by the punt receiving-ytg regressors
ReceivingYtgQuantiles == {<<60, 80, 95>>, <<-3, -2, 0>>}

(***************************************************************************)
(* Simulator: the steps of one cycle of run().  A handler is an operator   *)
(* from the GameState (and the Simulator's cursor) to the record           *)
(* [gs, prev_action, next_action] it leaves behind.                        *)
(***************************************************************************)
Sim(g, prev, next) ==
    [gs |-> g, prev_action |-> prev, next_action |-> next, raised |-> FALSE]
\* the handler raised an exception before changing anything
Raise(g, prev, next) ==
    [gs |-> g, prev_action |-> prev, next_action |-> next, raised |-> TRUE]

\* Simulator._timeout.  The defensive branch names the method
\* decrement_defense_timeouts without calling it, so only stop_clock runs.
timeout(g, offense_calls, defense_calls) ==
    LET g1 == IF get_offense_timeouts(g) > 0 /\ offense_calls
              THEN stop_clock(decrement_offense_timeouts(g))
              ELSE g
    IN  IF get_defense_timeouts(g1) > 0 /\ defense_calls
        THEN stop_clock(g1)
        ELSE g1

\* variant: the kneel branch is missing, every runoff is the regular one
calculate_clock_runoff_regular_only(g, prev) ==
    decrement_seconds_remaining(g, RegularRunoff)

\* Simulator._calculate_clock_runoff
calculate_clock_runoff(g, prev) ==
    IF prev = "qb_kneel"
    THEN decrement_seconds_remaining(g, KneelRunoff)
    ELSE decrement_seconds_remaining(g, RegularRunoff)

\* x / 2 in Python; exact in the model when x is even in units of 1/Scale
Half(x) == x \div 2
Halvable(x) == x % 2 = 0

\* the branches of Simulator._penalty that apply half the distance
OffenseHalfDistance(g, yards_lost_offense) ==
    yards_lost_offense > 0
    /\ Gt(Plus(get_yards_to_goal(g), Y(yards_lost_offense)), Y(FieldLength))
DefenseHalfDistance(g, yards_lost_defense) ==
    yards_lost_defense > 0
    /\ Le(Minus(get_yards_to_goal(g), Y(yards_lost_defense)), 0)

\* Simulator._penalty
penalty(g, yards_lost_offense, yards_lost_defense, loss_of_down, automatic_first_down) ==
    LET current_ytg == get_yards_to_goal(g)
        g1 == IF yards_lost_offense > 0
              THEN LET penalty_distance ==
                           IF OffenseHalfDistance(g, yards_lost_offense)
                           THEN Half(Y(FieldLength) - current_ytg)
                           ELSE Y(yards_lost_offense)
                       moved == add_to_distance(
                                    add_to_yards_to_goal(g, penalty_distance),
                                    penalty_distance)
                   IN  IF loss_of_down
                       THEN IF Eq(get_down(moved), 4)
                            THEN set_distance(set_down(switch_possession(moved), 1),
                                              Y(FirstDownDistance))
                            ELSE increment_down(moved)
                       ELSE moved
              ELSE g
    IN  IF yards_lost_defense > 0
        THEN LET penalty_distance ==
                     IF DefenseHalfDistance(g, yards_lost_defense)
                     THEN Half(current_ytg)
                     ELSE Y(yards_lost_defense)
                 moved == add_to_distance(
                              add_to_yards_to_goal(g1, -penalty_distance),
                              -penalty_distance)
             IN  IF automatic_first_down
                 THEN set_distance(set_down(moved, 1), Y(FirstDownDistance))
                 ELSE moved
        ELSE g1

\* variant: possession is flipped whoever recovered the kick
kickoff_always_flips(g, next, ytg, seconds_used, recovered_by) ==
    LET g1 == stop_clock(decrement_seconds_remaining(g, seconds_used))
        g2 == switch_possession(g1)
    IN  IF ytg = 0
        THEN Sim(increment_offense_score(g2, 6), next,
                 "extra_point_or_two_point_conversion")
        ELSE Sim(set_distance(set_down(set_yards_to_goal(g2, Y(ytg)), 1),
                              Y(FirstDownDistance)),
                 next, "play")

\* variant: the touchdown is scored before possession is flipped
kickoff_scores_before_flip(g, next, ytg, seconds_used, recovered_by) ==
    LET g1 == stop_clock(decrement_seconds_remaining(g, seconds_used))
        flip(x) == IF recovered_by = "defense" THEN switch_possession(x) ELSE x
    IN  IF ytg = 0
        THEN Sim(flip(increment_offense_score(g1, 6)), next,
                 "extra_point_or_two_point_conversion")
        ELSE Sim(set_distance(set_down(set_yards_to_goal(flip(g1), Y(ytg)), 1),
                              Y(FirstDownDistance)),
                 next, "play")

\* Simulator._kickoff
kickoff(g, next, ytg, seconds_used, recovered_by) ==
    LET g1 == stop_clock(decrement_seconds_remaining(g, seconds_used))
        g2 == IF recovered_by = "defense" THEN switch_possession(g1) ELSE g1
    IN  IF ytg = 0
        THEN Sim(increment_offense_score(g2, 6), next,
                 "extra_point_or_two_point_conversion")
        ELSE Sim(set_distance(set_down(set_yards_to_goal(g2, Y(ytg)), 1),
                              Y(FirstDownDistance)),
                 next, "play")

\* the "Turnover on downs" block shared by _run_play, _pass_play and _qb_kneel
turnover_on_downs(g) ==
    LET g1 == set_distance(set_down(switch_possession(g), 1), Y(FirstDownDistance))
    IN  stop_clock(set_yards_to_goal(g1, Minus(Y(FieldLength), get_yards_to_goal(g1))))

\* the "Touchdown" block shared by _run_play and _pass_play
touchdown_check(s) ==
    IF Le(get_yards_to_goal(s.gs), 0)
    THEN Sim(increment_offense_score(s.gs, 6), s.next_action,
             "extra_point_or_two_point_conversion")
    ELSE s

\* Simulator._run_play
run_play(g) ==
    LET yards_gained == Y(RunYardsGained)
        g1 == increment_down(start_clock(
                  decrement_seconds_remaining(g, RunSecondsUsed)))
        g2 == add_to_yards_to_goal(add_to_distance(g1, -yards_gained), -yards_gained)
        g3 == IF Eq(get_down(g2), 4) THEN turnover_on_downs(g2) ELSE g2
    IN  touchdown_check(Sim(g3, "run_play", "play"))

\* Simulator._qb_kneel
qb_kneel(g) ==
    LET yards_lost == Y(-1)
        g1 == start_clock(decrement_seconds_remaining(g, KneelSecondsUsed))
        g2 == add_to_yards_to_goal(add_to_distance(g1, yards_lost), -yards_lost)
    IN  Sim(IF Eq(get_down(g2), 4) THEN turnover_on_downs(g2) ELSE increment_down(g2),
            "qb_kneel", "play")

(***************************************************************************)
(* Sampling helpers of the oracles.                                        *)
(***************************************************************************)
\* truthiness of a Python str: only the empty string is false
Truthy(str) == str # ""
\* np.clip(x, lo, hi) = minimum(maximum(x, lo), hi)
Clip(x, lo, hi) == IF (IF x < lo THEN lo ELSE x) > hi THEN hi
                   ELSE (IF x < lo THEN lo ELSE x)
\* np.random.triangular(left, mode, right) raises ValueError unless
\* left <= mode <= right and left < right
TriangularOk(left, mode, right) == left <= mode /\ mode <= right /\ left < right
\* draws of np.random.triangular: values of [left, right); the model takes
\* the left end, the mode and the last representable value below right
TriangularSamples(left, mode, right) ==
    {x \in {left, mode, right - 1} : left <= x /\ x < right}
AbsInt(x) == IF x < 0 THEN -x ELSE x

\* Sack.predict_sack_fumble_recovery_yards_lost.  is_offense_recovery is the
\* str returned by predict_sack_fumble_recovery_team; both tables are
\* sampled from SackYardsSamples.
predict_sack_fumble_recovery_yards_lost(is_offense_recovery, yards_to_goal, sample) ==
    LET max_yards_lost == Y(FieldLength) - yards_to_goal
        yards_lost == TruncYards(Min(Y(sample), max_yards_lost))
        \* int(np.clip(3.5 + .13 * yards_lost, 4, 12))
        time_used == Clip((350 + 13 * yards_lost) \div 100, 4, 12)
    IN  <<yards_lost, time_used>>

\* Sack.predict_sack_yards_lost
predict_sack_yards_lost(yards_to_goal, sample, sack_time) ==
    LET max_yards_lost == Y(FieldLength) - yards_to_goal
        yards_lost == TruncYards(Min(Y(sample), max_yards_lost))
    IN  <<yards_lost, sack_time>>

\* the branches of _pass_play after a sack, given yards_lost (whole yards)
\* and whether the offense recovered; ytg and down are read before the sack
sack_outcome(g, fumble, offense_recovery, yards_lost) ==
    LET ytg == get_yards_to_goal(g)
        down == get_down(g)
        spot == Y(FieldLength) - ytg - Y(yards_lost)
        lost_ball(prev) ==
            LET g1 == set_distance(set_down(switch_possession(g), 1),
                                   Min(Y(FirstDownDistance), spot))
            IN  Sim(stop_clock(set_yards_to_goal(g1,
                        Y(FieldLength) - get_yards_to_goal(g1) - Y(yards_lost))),
                    prev, "play")
        kept_ball ==
            Sim(increment_down(add_to_yards_to_goal(
                    add_to_distance(start_clock(g), Y(yards_lost)), Y(yards_lost))),
                "sack", "play")
    IN  IF fumble
        THEN IF offense_recovery
             THEN IF spot <= 0
                  THEN Sim(increment_defense_score(stop_clock(g), 2),
                           "safety", "kickoff")
                  ELSE IF Eq(down, 4) THEN lost_ball("sack_turnover")
                  ELSE kept_ball
             ELSE IF spot <= 0
                  THEN Sim(switch_possession(stop_clock(
                               increment_defense_score(g, 6))),
                           "sack_fumble_td", "extra_point_or_two_point_conversion")
                  ELSE lost_ball("sack_fumble_recovery")
        ELSE IF spot <= 0
             THEN Sim(stop_clock(increment_defense_score(g, 2)),
                      "sack_safety", "kickoff")
             ELSE IF Eq(down, 4) THEN lost_ball("sack_turnover")
             ELSE kept_ball

\* Simulator._pass_play
pass_play(g, sack, sack_fumble, recovery_team, sample, sack_time, pass_completion) ==
    IF sack
    THEN IF sack_fumble
         THEN LET is_offense_recovery == recovery_team
                  r == predict_sack_fumble_recovery_yards_lost(
                           Truthy(is_offense_recovery), get_yards_to_goal(g), sample)
              IN  sack_outcome(decrement_seconds_remaining(g, r[2]), TRUE,
                               Truthy(is_offense_recovery), r[1])
         ELSE LET r == predict_sack_yards_lost(get_yards_to_goal(g), sample, sack_time)
              IN  sack_outcome(decrement_seconds_remaining(g, r[2]), FALSE, FALSE, r[1])
    ELSE LET g1 == decrement_seconds_remaining(g, PassSecondsUsed)
             g2 == IF pass_completion
                   THEN add_to_yards_to_goal(
                            add_to_distance(start_clock(g1), -Y(PassYardsGained)),
                            -Y(PassYardsGained))
                   ELSE stop_clock(g1)
             g3 == IF Eq(get_down(g2), 4) THEN turnover_on_downs(g2) ELSE g2
         IN  touchdown_check(Sim(g3, "pass_play", "play"))

\* the clipped quantiles handed to np.random.triangular by the blocked-kick
\* regressors (FieldGoal / Punt .predict_yards_gained_if_*_blocked)
BlockedKickTriangle(yards_to_goal, q) ==
    LET min_yards_gained == -yards_to_goal + Y(1)
        max_yards_gained == Y(FieldLength) - yards_to_goal
    IN  <<Clip(Y(q[1]), min_yards_gained, max_yards_gained),
          Clip(Y(q[2]), min_yards_gained, max_yards_gained),
          Clip(Y(q[3]), min_yards_gained, max_yards_gained)>>

\* base_time + int(abs(yards_gained) // 10), yards_gained in whole yards
BlockedKickTime(yards_gained) == 5 + AbsInt(yards_gained) \div 10

\* FieldGoal.predict_if_field_goal_is_made: seconds_used
\*   int(ceil(4 + (fg_distance - 25) * 0.05)) if fg_distance > 25 else 4
FieldGoalSeconds(yards_to_goal) ==
    LET over == yards_to_goal + Y(17) - Y(25)
    IN  IF over > 0 THEN 4 + (over + 20 * Scale - 1) \div (20 * Scale) ELSE 4

\* FieldGoal.predict_if_field_goal_is_made: made only when the classifier is
\* consulted (yards_to_goal <= 48) and the draw is below its probability
predict_if_field_goal_is_made(yards_to_goal, draw_made) ==
    IF yards_to_goal <= Y(MaxFgModelYards)
    THEN <<draw_made, FieldGoalSeconds(yards_to_goal)>>
    ELSE <<FALSE, FieldGoalSeconds(yards_to_goal)>>

\* variant: after a miss the field is not flipped for the new offense
field_goal_miss_keeps_spot(g, prev, next, fg_blocked, q, sample, draw_made) ==
    IF fg_blocked
    THEN LET t == BlockedKickTriangle(get_yards_to_goal(g), q)
         IN  IF ~TriangularOk(t[1], t[2], t[3])
             THEN Raise(g, prev, next)
             ELSE LET yards_gained == TruncYards(sample)
                      g1 == stop_clock(decrement_seconds_remaining(
                                g, BlockedKickTime(yards_gained)))
                      ytg == Y(FieldLength) - get_yards_to_goal(g1) - Y(yards_gained)
                      g2 == switch_possession(g1)
                  IN  IF ytg <= 0
                      THEN Sim(increment_defense_score(g2, 6),
                               "field_goal_blocked_td",
                               "extra_point_or_two_point_conversion")
                      ELSE Sim(set_yards_to_goal(
                                   set_distance(set_down(g2, 1),
                                                Min(Y(FirstDownDistance), ytg)),
                                   ytg),
                               "field_goal_blocked", "play")
    ELSE LET r == predict_if_field_goal_is_made(get_yards_to_goal(g), draw_made)
             g1 == stop_clock(decrement_seconds_remaining(g, r[2]))
         IN  IF r[1]
             THEN Sim(increment_offense_score(g1, 3), "field_goal", "kickoff")
             ELSE Sim(set_distance(set_down(switch_possession(g1), 1),
                                   Y(FirstDownDistance)),
                      "field_goal_miss", "play")

\* Simulator._field_goal; sample is the draw of np.random.triangular
field_goal(g, prev, next, fg_blocked, q, sample, draw_made) ==
    IF fg_blocked
    THEN LET t == BlockedKickTriangle(get_yards_to_goal(g), q)
         IN  IF ~TriangularOk(t[1], t[2], t[3])
             THEN Raise(g, prev, next)
             ELSE LET yards_gained == TruncYards(sample)
                      g1 == stop_clock(decrement_seconds_remaining(
                                g, BlockedKickTime(yards_gained)))
                      ytg == Y(FieldLength) - get_yards_to_goal(g1) - Y(yards_gained)
                      g2 == switch_possession(g1)
                  IN  IF ytg <= 0
                      THEN Sim(increment_defense_score(g2, 6),
                               "field_goal_blocked_td",
                               "extra_point_or_two_point_conversion")
                      ELSE Sim(set_yards_to_goal(
                                   set_distance(set_down(g2, 1),
                                                Min(Y(FirstDownDistance), ytg)),
                                   ytg),
                               "field_goal_blocked", "play")
    ELSE LET r == predict_if_field_goal_is_made(get_yards_to_goal(g), draw_made)
             g1 == stop_clock(decrement_seconds_remaining(g, r[2]))
         IN  IF r[1]
             THEN Sim(increment_offense_score(g1, 3), "field_goal", "kickoff")
             ELSE LET g2 == set_distance(set_down(switch_possession(g1), 1),
                                         Y(FirstDownDistance))
                  IN  Sim(set_yards_to_goal(g2,
                              Y(FieldLength) - get_yards_to_goal(g2)),
                          "field_goal_miss", "play")

\* Punt.predict_punt_receiving_yards: the clipped quantiles
ReceivingTriangle(q) ==
    <<Clip(Y(q[1]), Y(1), Y(99)), Clip(Y(q[2]), Y(1), Y(99)),
      Clip(Y(q[3]), Y(1), Y(99))>>

\* base_time + int(abs(min(0, receiving_ytg_sample - 80)) * .15)
PuntTime(receiving_ytg) ==
    5 + (3 * AbsInt(IF receiving_ytg - 80 < 0 THEN receiving_ytg - 80 ELSE 0)) \div 20

\* Simulator._punt; sample is the draw of np.random.triangular, is_td the
\* draw of the 70% touchdown / 30% safety split
punt(g, prev, next, punt_blocked, q, sample, is_td) ==
    IF punt_blocked
    THEN LET t == BlockedKickTriangle(get_yards_to_goal(g), q)
         IN  IF ~TriangularOk(t[1], t[2], t[3])
             THEN Raise(g, prev, next)
             ELSE LET yards_gained == TruncYards(sample)
                      g1 == stop_clock(decrement_seconds_remaining(
                                g, BlockedKickTime(yards_gained)))
                      ytg == Y(FieldLength) - get_yards_to_goal(g1) - Y(yards_gained)
                  IN  IF ytg <= 0
                      THEN IF is_td
                           THEN Sim(switch_possession(increment_defense_score(g1, 6)),
                                    "punt_blocked_td",
                                    "extra_point_or_two_point_conversion")
                           ELSE Sim(increment_defense_score(g1, 2),
                                    "punt_blocked_safety", "kickoff")
                      ELSE Sim(set_yards_to_goal(
                                   set_distance(set_down(switch_possession(g1), 1),
                                                Min(Y(FirstDownDistance), ytg)),
                                   ytg),
                               "punt_blocked", "play")
    ELSE LET t == ReceivingTriangle(q)
         IN  IF ~TriangularOk(t[1], t[2], t[3])
             THEN Raise(g, prev, next)
             ELSE LET receiving_ytg == TruncYards(sample)
                      g1 == switch_possession(stop_clock(
                                decrement_seconds_remaining(g, PuntTime(receiving_ytg))))
                  IN  IF receiving_ytg <= 0
                      THEN Sim(increment_offense_score(g1, 6), "punt_return_td",
                               "extra_point_or_two_point_conversion")
                      ELSE Sim(set_yards_to_goal(
                                   set_distance(set_down(g1, 1),
                                                Min(Y(FirstDownDistance),
                                                    Y(receiving_ytg))),
                                   Y(receiving_ytg)),
                               "punt_return", "play")

\* Simulator._extra_point_or_two_point_conversion.  Its first statement calls
\* TryAttemptDecision.predict_xp_attempt_proba(score_diff, diff_time_ratio,
\* pct_game_played) without the required positional parameter
\* seconds_remaining, so Python raises TypeError before any draw or update.
extra_point_or_two_point_conversion(g, prev, next) == Raise(g, prev, next)

(***************************************************************************)
(* Simulator._simulate_play: the actions the decision oracle can return.   *)
(***************************************************************************)
Decisions(down) ==
    IF Le(down, 3)
    THEN {"pass", "run", "field_goal", "qb_kneel"}
    ELSE {"field_goal", "punt", "run", "pass"}

(***************************************************************************)
(* The state machine.  pc is the position inside simulate_full_game:       *)
(*   "run"      Simulator.run entered, before the coin toss                *)
(*   "loop"     at the test of the while loop                              *)
(*   "timeout", "runoff", "penalty", "dispatch"   the steps of one cycle   *)
(*   "returned" run() has returned to the batch driver                     *)
(*   "raised"   an exception left run() and simulate_full_game             *)
(*   "finished" simulate_full_game has computed the frequencies            *)
(***************************************************************************)
Init ==
    /\ gs = GameState(StartSeconds)
    /\ initial_state = cache_initial_state(GameState(StartSeconds))
    /\ next_action = "kickoff"
    /\ prev_action = None
    /\ pc = "run"
    /\ result = ReturnNone
    /\ outcomes = <<>>
    /\ flags = 0

\* Simulator._coin_toss, under the test at the head of run()
coin_toss ==
    /\ pc = "run"
    /\ \E winner \in {"home", "away"} :
          gs' = IF get_possession(gs) = None THEN set_possession(gs, winner) ELSE gs
    /\ pc' = "loop"
    /\ UNCHANGED <<initial_state, next_action, prev_action, result, outcomes, flags>>

\* while self.game_state.get_seconds_remaining() > 0; after the loop run()
\* prints the score and falls off its end, which returns None
loop_test ==
    /\ pc = "loop"
    /\ IF get_seconds_remaining(gs) > 0
       THEN pc' = "timeout" /\ result' = result
       ELSE pc' = "returned" /\ result' = ReturnNone
    /\ UNCHANGED <<gs, initial_state, next_action, prev_action, outcomes, flags>>

timeout_step ==
    /\ pc = "timeout"
    /\ \E offense_calls \in BOOLEAN, defense_calls \in BOOLEAN :
          gs' = timeout(gs, offense_calls, defense_calls)
    /\ pc' = "runoff"
    /\ UNCHANGED <<initial_state, next_action, prev_action, result, outcomes, flags>>

runoff_step ==
    /\ pc = "runoff"
    /\ gs' = IF clock_is_rolling(gs) THEN calculate_clock_runoff(gs, prev_action) ELSE gs
    /\ pc' = "penalty"
    /\ UNCHANGED <<initial_state, next_action, prev_action, result, outcomes, flags>>

Drawn(yards) == IF yards > 0 THEN 1 ELSE 0

penalty_step ==
    /\ pc = "penalty"
    /\ \E yards_lost_offense \in PenaltyYards, yards_lost_defense \in PenaltyYards :
       \* the loss-of-down / automatic-first-down draws are made only after
       \* a penalty on that side
       \E loss_of_down \in IF yards_lost_offense > 0 THEN BOOLEAN ELSE {FALSE},
          automatic_first_down \in IF yards_lost_defense > 0 THEN BOOLEAN ELSE {FALSE} :
          /\ OffenseHalfDistance(gs, yards_lost_offense)
                => Halvable(Y(FieldLength) - get_yards_to_goal(gs))
          /\ DefenseHalfDistance(gs, yards_lost_defense)
                => Halvable(get_yards_to_goal(gs))
          /\ gs' = penalty(gs, yards_lost_offense, yards_lost_defense,
                           loss_of_down, automatic_first_down)
          /\ flags' = flags + Drawn(yards_lost_offense) + Drawn(yards_lost_defense)
          /\ flags' <= MaxPenalties
    /\ pc' = "dispatch"
    /\ UNCHANGED <<initial_state, next_action, prev_action, result, outcomes>>

\* the handler's result becomes the Simulator's state; an exception ends run()
Dispatched(s) ==
    /\ gs' = s.gs
    /\ prev_action' = s.prev_action
    /\ next_action' = s.next_action
    /\ pc' = IF s.raised THEN "raised" ELSE "loop"
    /\ UNCHANGED <<initial_state, result, outcomes, flags>>

kickoff_step ==
    /\ pc = "dispatch"
    /\ next_action = "kickoff"
    /\ \E k \in KickoffOutcomes :
          Dispatched(kickoff(gs, next_action, k[1], k[2], k[3]))

run_play_step ==
    /\ pc = "dispatch"
    /\ next_action = "play"
    /\ "run" \in Decisions(get_down(gs))
    /\ Dispatched(run_play(gs))

\* the draws of _pass_play: a draw that the code does not make on a path is
\* held at one value there
PassDraws ==
    {d \in [sack : BOOLEAN, sack_fumble : BOOLEAN, recovery_team : RecoveryTeams,
            sample : SackYardsSamples, sack_time : SackSeconds,
            pass_completion : BOOLEAN] :
        /\ d.sack => d.pass_completion = FALSE
        /\ ~d.sack => /\ d.sack_fumble = FALSE
                      /\ d.sample = CHOOSE x \in SackYardsSamples : TRUE
        /\ ~(d.sack /\ d.sack_fumble) => d.recovery_team = "offense"
        /\ ~(d.sack /\ ~d.sack_fumble) =>
              d.sack_time = CHOOSE x \in SackSeconds : TRUE}

pass_play_step ==
    /\ pc = "dispatch"
    /\ next_action = "play"
    /\ "pass" \in Decisions(get_down(gs))
    /\ \E d \in PassDraws :
          Dispatched(pass_play(gs, d.sack, d.sack_fumble, d.recovery_team, d.sample,
                               d.sack_time, d.pass_completion))

\* the draws of np.random.triangular for the clipped quantiles t; when the
\* call raises there is no draw
Samples(t) ==
    IF TriangularOk(t[1], t[2], t[3])
    THEN TriangularSamples(t[1], t[2], t[3])
    ELSE {t[1]}

field_goal_step ==
    /\ pc = "dispatch"
    /\ next_action = "play"
    /\ "field_goal" \in Decisions(get_down(gs))
    /\ \/ \E q \in YardsGainedQuantiles :
             \E sample \in Samples(BlockedKickTriangle(get_yards_to_goal(gs), q)) :
                Dispatched(field_goal(gs, prev_action, next_action, TRUE, q,
                                      sample, FALSE))
       \/ \E draw_made \in BOOLEAN :
             Dispatched(field_goal(gs, prev_action, next_action, FALSE,
                                   <<0, 0, 0>>, 0, draw_made))

punt_step ==
    /\ pc = "dispatch"
    /\ next_action = "play"
    /\ "punt" \in Decisions(get_down(gs))
    /\ \/ \E q \in YardsGainedQuantiles, is_td \in BOOLEAN :
             \E sample \in Samples(BlockedKickTriangle(get_yards_to_goal(gs), q)) :
                Dispatched(punt(gs, prev_action, next_action, TRUE, q, sample, is_td))
       \/ \E q \in ReceivingYtgQuantiles :
             \E sample \in Samples(ReceivingTriangle(q)) :
                Dispatched(punt(gs, prev_action, next_action, FALSE, q, sample, FALSE))

qb_kneel_step ==
    /\ pc = "dispatch"
    /\ next_action = "play"
    /\ "qb_kneel" \in Decisions(get_down(gs))
    /\ Dispatched(qb_kneel(gs))

try_attempt_step ==
    /\ pc = "dispatch"
    /\ next_action = "extra_point_or_two_point_conversion"
    /\ Dispatched(extra_point_or_two_point_conversion(gs, prev_action, next_action))

\* runner.py: outcomes.append(simulator.run()); game_state.reset(); then the
\* next iteration builds a new Simulator, or the frequencies are computed
driver_step ==
    /\ pc = "returned"
    /\ outcomes' = Append(outcomes, result)
    /\ gs' = reset(gs, initial_state)
    /\ IF Len(outcomes') < NSimulations
       THEN /\ pc' = "run"
            /\ next_action' = "kickoff"
            /\ prev_action' = None
       ELSE /\ pc' = "finished"
            /\ UNCHANGED <<next_action, prev_action>>
    /\ flags' = 0
    /\ UNCHANGED <<initial_state, result>>

Next ==
    \/ coin_toss
    \/ loop_test
    \/ timeout_step
    \/ runoff_step
    \/ penalty_step
    \/ kickoff_step
    \/ run_play_step
    \/ pass_play_step
    \/ field_goal_step
    \/ punt_step
    \/ qb_kneel_step
    \/ try_attempt_step
    \/ driver_step

Spec == Init /\ [][Next]_vars

(***************************************************************************)
(* The GameState object on its own: a caller that holds a GameState built  *)
(* as runner.py builds it and calls its public mutators in any order.      *)
(* pc stays "api"; the Simulator's variables are not touched.              *)
(***************************************************************************)
ApiInit ==
    /\ gs = GameState(StartSeconds)
    /\ initial_state = cache_initial_state(GameState(StartSeconds))
    /\ next_action = "kickoff"
    /\ prev_action = None
    /\ pc = "api"
    /\ result = ReturnNone
    /\ outcomes = <<>>
    /\ flags = 0

\* the mutator call leaves the GameState g behind
Called(g) ==
    /\ pc = "api"
    /\ gs' = g
    /\ UNCHANGED <<initial_state, next_action, prev_action, pc, result, outcomes, flags>>

\* the increments the Simulator passes to increment_*_score
ScoreValues == {1, 2, 3, 6}
\* values passed to decrement_seconds_remaining
SecondsValues == {0, 1, 3, 7}

api_set_possession == \E value \in {"home", "away"} : Called(set_possession(gs, value))
api_switch_possession == Called(switch_possession(gs))
api_stop_clock == Called(stop_clock(gs))
api_start_clock == Called(start_clock(gs))
api_decrement_offense_timeouts == Called(decrement_offense_timeouts(gs))
api_decrement_defense_timeouts == Called(decrement_defense_timeouts(gs))
api_increment_offense_score ==
    \E value \in ScoreValues :
        /\ gs.home.score + gs.away.score + value <= MaxScore
        /\ Called(increment_offense_score(gs, value))
api_increment_defense_score ==
    \E value \in ScoreValues :
        /\ gs.home.score + gs.away.score + value <= MaxScore
        /\ Called(increment_defense_score(gs, value))
api_increment_play_count ==
    /\ gs.num_plays_on_drive < MaxPlayCount
    /\ Called(increment_play_count(gs))
api_decrement_seconds_remaining ==
    \E value \in SecondsValues : Called(decrement_seconds_remaining(gs, value))
api_reset == Called(reset(gs, initial_state))

ApiNext ==
    \/ api_set_possession
    \/ api_switch_possession
    \/ api_stop_clock
    \/ api_start_clock
    \/ api_decrement_offense_timeouts
    \/ api_decrement_defense_timeouts
    \/ api_increment_offense_score
    \/ api_increment_defense_score
    \/ api_increment_play_count
    \/ api_decrement_seconds_remaining
    \/ api_reset

ApiSpec == ApiInit /\ [][ApiNext]_vars

(***************************************************************************)
(* The GameState object called with arguments in and out of their ranges:  *)
(* the setters of the scrimmage fields, and the score and clock mutators   *)
(* with increments of either sign.                                         *)
(***************************************************************************)
\* arguments of set_down, set_distance and set_yards_to_goal (whole yards)
DownValues == {0, 1, 2, 3, 4, 5}
DistanceValues == {-1, 0, 5, 10}
YardsToGoalValues == {0, 1, 50, 99, 100}
\* increments of either sign
SignedValues == {-1, 1}

api_set_down == \E value \in DownValues : Called(set_down(gs, value))
api_set_distance == \E value \in DistanceValues : Called(set_distance(gs, Y(value)))
api_set_yards_to_goal ==
    \E value \in YardsToGoalValues : Called(set_yards_to_goal(gs, Y(value)))
api_signed_offense_score ==
    \E value \in SignedValues :
        /\ get_offense_score(gs) + value \in -1..1
        /\ Called(increment_offense_score(gs, value))
api_signed_defense_score ==
    \E value \in SignedValues :
        /\ get_defense_score(gs) + value \in -1..1
        /\ Called(increment_defense_score(gs, value))
api_signed_seconds_remaining ==
    \E value \in SignedValues :
        /\ gs.seconds_remaining - value \in (StartSeconds - 1)..(StartSeconds + 1)
        /\ Called(decrement_seconds_remaining(gs, value))

SetterNext ==
    \/ api_set_possession
    \/ api_set_down
    \/ api_set_distance
    \/ api_set_yards_to_goal
    \/ api_signed_offense_score
    \/ api_signed_defense_score
    \/ api_signed_seconds_remaining

SetterSpec == ApiInit /\ [][SetterNext]_vars

(***************************************************************************)
(* The kneel drill: a GameState built in a scrimmage situation with the    *)
(* clock rolling, and a Simulator started at next_action = "play" whose    *)
(* oracles draw no timeout, no penalty and, on downs 1 to 3, a QB kneel.   *)
(* The drill ends when the offense reaches 4th down (the 4th-down decision *)
(* has no kneel) or when the clock reaches 0.                              *)
(***************************************************************************)
\* seconds_remaining the drill's GameState is built with
DrillSeconds == {3600, 2710, 130, 50}
\* yards_to_goal the drill's GameState is built with (whole yards)
DrillYardsToGoal == {20, 40, 97}

DrillInit ==
    /\ \E possession \in {"home", "away", None}, seconds \in DrillSeconds,
          down \in {1, 2, 3}, ytg \in DrillYardsToGoal :
          gs = NewGameState(possession, 0, 0, seconds, down,
                            Y(FirstDownDistance), Y(ytg), TRUE)
    /\ initial_state = cache_initial_state(gs)
    /\ next_action = "play"
    /\ prev_action = None
    /\ pc = "run"
    /\ result = ReturnNone
    /\ outcomes = <<>>
    /\ flags = 0

\* _timeout when neither timeout oracle draws a timeout
no_timeout_step ==
    /\ pc = "timeout"
    /\ gs' = timeout(gs, FALSE, FALSE)
    /\ pc' = "runoff"
    /\ UNCHANGED <<initial_state, next_action, prev_action, result, outcomes, flags>>

\* _penalty when the penalty oracle draws 0 yards for both sides
no_penalty_step ==
    /\ pc = "penalty"
    /\ gs' = penalty(gs, 0, 0, FALSE, FALSE)
    /\ pc' = "dispatch"
    /\ UNCHANGED <<initial_state, next_action, prev_action, result, outcomes, flags>>

DrillNext ==
    \/ coin_toss
    \/ loop_test
    \/ no_timeout_step
    \/ runoff_step
    \/ no_penalty_step
    \/ qb_kneel_step

DrillSpec == DrillInit /\ [][DrillNext]_vars

(***************************************************************************)
(* The kneel drill with the timeout oracles drawing freely: the clock is   *)
(* stopped by a timeout in some cycles and left rolling in others.         *)
(***************************************************************************)
ClockNext ==
    \/ coin_toss
    \/ loop_test
    \/ timeout_step
    \/ runoff_step
    \/ no_penalty_step
    \/ qb_kneel_step

ClockSpec == DrillInit /\ [][ClockNext]_vars

(***************************************************************************)
(* The scrimmage start: a Simulator handed a GameState built late in a     *)
(* series (runner.py passes down, distance and yards_to_goal to the        *)
(* constructor), started at next_action = "play".  The timeout oracles     *)
(* draw nothing; the penalty oracle and every play handler run freely, on  *)
(* a clock that allows a couple of plays.                                  *)
(***************************************************************************)
\* seconds_remaining the scrimmage GameState is built with
ScrimmageSeconds == {10}
\* yards_to_goal the scrimmage GameState is built with (whole yards)
ScrimmageYardsToGoal == {4, 50, 97}

ScrimmageInit ==
    /\ \E possession \in {"home", "away"}, seconds \in ScrimmageSeconds,
          down \in {3, 4}, ytg \in ScrimmageYardsToGoal :
          gs = NewGameState(possession, 0, 0, seconds, down,
                            Min(Y(FirstDownDistance), Y(ytg)), Y(ytg), FALSE)
    /\ initial_state = cache_initial_state(gs)
    /\ next_action = "play"
    /\ prev_action = None
    /\ pc = "run"
    /\ result = ReturnNone
    /\ outcomes = <<>>
    /\ flags = 0

ScrimmageNext ==
    \/ coin_toss
    \/ loop_test
    \/ no_timeout_step
    \/ runoff_step
    \/ penalty_step
    \/ kickoff_step
    \/ run_play_step
    \/ pass_play_step
    \/ field_goal_step
    \/ punt_step
    \/ qb_kneel_step
    \/ try_attempt_step

ScrimmageSpec == ScrimmageInit /\ [][ScrimmageNext]_vars

(***************************************************************************)
(* The scoring branches of the handlers, statement by statement: pc names  *)
(* the branch being executed and flags counts the statements of it that    *)
(* have run.  Each step executes the next statement of the branch, in the  *)
(* order of the source.                                                    *)
(***************************************************************************)
Call(op, value) == [op |-> op, value |-> value]
TryNext == "extra_point_or_two_point_conversion"
\* seconds_used drawn by the oracles of the scoring branches
ScoringSecondsUsed == {4, 5}

\* the statements of each scoring branch; the value of
\* decrement_seconds_remaining is drawn when the statement runs
ScoringStatements(branch) ==
    CASE branch = "kickoff_return_td" ->       \* _kickoff, recovered by 'defense'
           <<Call("decrement_seconds_remaining", 0), Call("stop_clock", 0),
             Call("switch_possession", 0), Call("increment_offense_score", 6),
             Call("set_prev_action", "kickoff"), Call("set_next_action", TryNext)>>
      [] branch = "onside_kickoff_td" ->       \* _kickoff, recovered by 'offense'
           <<Call("decrement_seconds_remaining", 0), Call("stop_clock", 0),
             Call("increment_offense_score", 6),
             Call("set_prev_action", "kickoff"), Call("set_next_action", TryNext)>>
      [] branch = "run_td" ->                  \* _run_play, touchdown block
           <<Call("decrement_seconds_remaining", 0), Call("start_clock", 0),
             Call("set_prev_action", "run_play"), Call("set_next_action", "play"),
             Call("increment_offense_score", 6),
             Call("set_prev_action", "play"), Call("set_next_action", TryNext)>>
      [] branch = "safety" ->                  \* _pass_play, fumble recovered by offense
           <<Call("decrement_seconds_remaining", 0), Call("stop_clock", 0),
             Call("increment_defense_score", 2),
             Call("set_prev_action", "safety"), Call("set_next_action", "kickoff")>>
      [] branch = "sack_fumble_td" ->          \* _pass_play, fumble recovered by defense
           <<Call("decrement_seconds_remaining", 0),
             Call("increment_defense_score", 6), Call("stop_clock", 0),
             Call("switch_possession", 0),
             Call("set_prev_action", "sack_fumble_td"), Call("set_next_action", TryNext)>>
      [] branch = "sack_safety" ->             \* _pass_play, sack without fumble
           <<Call("decrement_seconds_remaining", 0),
             Call("increment_defense_score", 2), Call("stop_clock", 0),
             Call("set_prev_action", "sack_safety"), Call("set_next_action", "kickoff")>>
      [] branch = "field_goal_blocked_td" ->   \* _field_goal, blocked
           <<Call("decrement_seconds_remaining", 0), Call("stop_clock", 0),
             Call("switch_possession", 0), Call("increment_defense_score", 6),
             Call("set_prev_action", "field_goal_blocked_td"),
             Call("set_next_action", TryNext)>>
      [] branch = "field_goal" ->              \* _field_goal, made
           <<Call("decrement_seconds_remaining", 0), Call("stop_clock", 0),
             Call("increment_offense_score", 3),
             Call("set_prev_action", "field_goal"), Call("set_next_action", "kickoff")>>
      [] branch = "punt_blocked_td" ->         \* _punt, blocked, touchdown
           <<Call("decrement_seconds_remaining", 0), Call("stop_clock", 0),
             Call("increment_defense_score", 6), Call("switch_possession", 0),
             Call("set_prev_action", "punt_blocked_td"), Call("set_next_action", TryNext)>>
      [] branch = "punt_blocked_safety" ->     \* _punt, blocked, safety
           <<Call("decrement_seconds_remaining", 0), Call("stop_clock", 0),
             Call("increment_defense_score", 2),
             Call("set_prev_action", "punt_blocked_safety"),
             Call("set_next_action", "kickoff")>>
      [] branch = "punt_return_td" ->          \* _punt, returned to the end zone
           <<Call("decrement_seconds_remaining", 0), Call("stop_clock", 0),
             Call("switch_possession", 0), Call("increment_offense_score", 6),
             Call("set_prev_action", "punt_return_td"), Call("set_next_action", TryNext)>>

ScoringBranches ==
    {"kickoff_return_td", "onside_kickoff_td", "run_td", "safety", "sack_fumble_td",
     "sack_safety", "field_goal_blocked_td", "field_goal", "punt_blocked_td",
     "punt_blocked_safety", "punt_return_td"}

\* what one statement does to the GameState
Exec(call, g, seconds_used) ==
    CASE call.op = "decrement_seconds_remaining" ->
           decrement_seconds_remaining(g, seconds_used)
      [] call.op = "stop_clock" -> stop_clock(g)
      [] call.op = "start_clock" -> start_clock(g)
      [] call.op = "switch_possession" -> switch_possession(g)
      [] call.op = "increment_offense_score" -> increment_offense_score(g, call.value)
      [] call.op = "increment_defense_score" -> increment_defense_score(g, call.value)
      [] OTHER -> g

OrderInit ==
    /\ \E possession \in {"home", "away"}, home_score \in {0, 3}, away_score \in {0, 7},
          clock_rolling \in BOOLEAN :
          gs = NewGameState(possession, home_score, away_score, 2 * StartSeconds, 4,
                            Y(FirstDownDistance), Y(50), clock_rolling)
    /\ initial_state = cache_initial_state(gs)
    /\ next_action = "play"
    /\ prev_action = None
    /\ pc = "dispatch"
    /\ result = ReturnNone
    /\ outcomes = <<>>
    /\ flags = 0

\* the handler enters one of its scoring branches
enter_scoring ==
    /\ pc = "dispatch"
    /\ \E branch \in ScoringBranches : pc' = branch
    /\ flags' = 0
    /\ UNCHANGED <<gs, initial_state, next_action, prev_action, result, outcomes>>

\* the next statement of the branch runs
statement_step ==
    /\ pc \in ScoringBranches
    /\ flags < Len(ScoringStatements(pc))
    /\ LET call == ScoringStatements(pc)[flags + 1]
       IN  /\ \E seconds_used \in ScoringSecondsUsed : gs' = Exec(call, gs, seconds_used)
           /\ prev_action' = IF call.op = "set_prev_action" THEN call.value
                             ELSE prev_action
           /\ next_action' = IF call.op = "set_next_action" THEN call.value
                             ELSE next_action
    /\ flags' = flags + 1
    /\ UNCHANGED <<initial_state, pc, result, outcomes>>

OrderNext ==
    \/ enter_scoring
    \/ statement_step

OrderSpec == OrderInit /\ [][OrderNext]_vars

(***************************************************************************)
(* TryAttemptDecision (src/models/try_attempt.py): the score-difference    *)
(* features of predict_xp_attempt_proba.                                   *)
(***************************************************************************)
\* variant: the "+ 1" of the range bound is missing
can_tie_with_3_and_7_one_fg_short_range(diff) ==
    LET target == -diff
    IN  \E fg \in {0, 1} :
            \E td \in 0..(((target - 3 * fg) \div 7) - 1) :
                7 * td + 3 * fg = target

\* for td in range((target - 3 * fg) // 7 + 1); // and \div both round down
can_tie_with_3_and_7_one_fg(diff) ==
    LET target == -diff
    IN  \E fg \in {0, 1} :
            \E td \in 0..((target - 3 * fg) \div 7) :
                7 * td + 3 * fg = target

can_tie_with_3_7_8_one_fg(diff) ==
    LET target == -diff
    IN  \E fg \in {0, 1} :
            \E td_8 \in 0..((target - 3 * fg) \div 8) :
                \E td_7 \in 0..((target - 3 * fg - 8 * td_8) \div 7) :
                    8 * td_8 + 7 * td_7 + 3 * fg = target

special_tie_condition(diff) ==
    IF diff >= 0
    THEN FALSE
    ELSE ~can_tie_with_3_and_7_one_fg(diff) /\ can_tie_with_3_7_8_one_fg(diff)

(***************************************************************************)
(* The try-attempt decision on its own: a GameState built with the scores  *)
(* at the time of a try, and one evaluation of _special_tie_condition on   *)
(* its score_diff, as predict_xp_attempt_proba does.                       *)
(***************************************************************************)
TryInit ==
    /\ \E possession \in {"home", "away"},
          home_score \in 0..MaxTryScore, away_score \in 0..MaxTryScore :
          gs = NewGameState(possession, home_score, away_score, StartSeconds,
                            nan, nan, nan, FALSE)
    /\ initial_state = cache_initial_state(gs)
    /\ next_action = "extra_point_or_two_point_conversion"
    /\ prev_action = None
    /\ pc = "try"
    /\ result = ReturnNone
    /\ outcomes = <<>>
    /\ flags = 0

special_tie_step ==
    /\ pc = "try"
    /\ result' = <<special_tie_condition(get_score_diff(gs))>>
    /\ pc' = "try_done"
    /\ UNCHANGED <<gs, initial_state, next_action, prev_action, outcomes, flags>>

TrySpec == TryInit /\ [][special_tie_step]_vars

(***************************************************************************)
(* Properties.                                                             *)
(***************************************************************************)
\* run() is executing (between its entry and its return or exception)
InRun == pc \in {"run", "loop", "timeout", "runoff", "penalty", "dispatch"}
Sign(x) == IF x > 0 THEN 1 ELSE IF x < 0 THEN -1 ELSE 0
\* np.mean(outcomes == v) * len(outcomes)
Count(v) == Cardinality({i \in 1..Len(outcomes) : outcomes[i] = ReturnInt(v)})
Other(team) == IF team = "home" THEN "away" ELSE "home"
IsWholeYards(x) == ~IsNan(x) /\ x % Scale = 0

\* C1: when run() has returned, the value it returned is
\* sign(home_score - away_score) of the game just played, and when the batch
\* driver has finished, the numbers of 1, 0 and -1 outcomes add up to the
\* number of replays (the three frequencies sum to 1).
C1_RunReturnsSign ==
    /\ pc = "returned" => result = ReturnInt(Sign(gs.home.score - gs.away.score))
    /\ pc = "finished" => Count(1) + Count(0) + Count(-1) = Len(outcomes)

\* C2: within a replay no step leaves seconds_remaining larger than before
\* (the step from "returned" is the driver's reset, which starts the next
\* replay).
C2_ClockMonotone ==
    [][pc # "returned" => gs'.seconds_remaining <= gs.seconds_remaining]_vars

C2_Witness ==
    /\ pc = "penalty"
    /\ gs.seconds_remaining > 0
    /\ gs.seconds_remaining < initial_state.seconds_remaining

\* C3: seconds_remaining stays in 0..3600 (a decrement larger than the time
\* left clamps at 0), and a cycle is started only with time left.
C3_ClockRange ==
    /\ 0 <= gs.seconds_remaining
    /\ gs.seconds_remaining <= GameSeconds
    /\ pc = "timeout" => gs.seconds_remaining > 0

\* a 7-second run from at most 6 seconds left was clamped, and run() returned
C3_Witness ==
    /\ pc = "returned"
    /\ prev_action = "run_play"
    /\ gs.seconds_remaining = 0

\* C4: every replay runs until seconds_remaining = 0: run() is never left
\* (by return or by exception) with time still on the clock.
C4_ReplayReachesZero ==
    pc \in {"returned", "raised"} => gs.seconds_remaining = 0

\* C5: at the end of every cycle that leaves next_action = play,
\* yards_to_goal is a whole number of yards in 1..99.
C5_YardsToGoalRange ==
    (pc = "loop" /\ next_action = "play") =>
        /\ IsWholeYards(gs.yards_to_goal)
        /\ Y(1) <= gs.yards_to_goal
        /\ gs.yards_to_goal <= Y(99)

\* C6: while run() executes and next_action = play, down is 1, 2, 3 or 4.
C6_DownRange ==
    (InRun /\ next_action = "play") => gs.down \in {1, 2, 3, 4}

\* C7: while run() executes and next_action = play,
\* 1 <= distance <= yards_to_goal.
C7_DistanceRange ==
    (InRun /\ next_action = "play") =>
        /\ Y(1) <= gs.distance
        /\ gs.distance <= gs.yards_to_goal

\* the stored derived fields of g equal their definitions
DerivedConsistent(g) ==
    /\ g.score_diff = get_offense_score(g) - get_defense_score(g)
    /\ g.pct_game_played = GameSeconds - g.seconds_remaining
    /\ g.diff_time_ratio = DiffTimeRatio(g.score_diff, g.pct_game_played)

\* C8: in every reachable state, and after any single GameState mutator
\* applied to it, score_diff, pct_game_played and diff_time_ratio equal
\* their defining formulas.
C8_DerivedConsistent ==
    /\ DerivedConsistent(gs)
    /\ \A team \in {"home", "away"} : DerivedConsistent(set_possession(gs, team))
    /\ DerivedConsistent(switch_possession(gs))
    /\ \A n \in {1, 2, 3, 6} :
          /\ DerivedConsistent(increment_offense_score(gs, n))
          /\ DerivedConsistent(increment_defense_score(gs, n))
    /\ \A n \in {0, 3, 7, 25, 40} : DerivedConsistent(decrement_seconds_remaining(gs, n))
    /\ DerivedConsistent(decrement_offense_timeouts(gs))
    /\ DerivedConsistent(decrement_defense_timeouts(gs))
    /\ DerivedConsistent(reset(gs, initial_state))

\* a team leads, time has run, and the ball has changed hands since
C8_Witness ==
    /\ InRun
    /\ gs.score_diff # 0
    /\ gs.seconds_remaining < initial_state.seconds_remaining
    /\ prev_action \in {"kickoff", "field_goal_miss", "punt_return"}

\* C9: reset() of any reachable GameState gives back every field as it was
\* at construction, a second reset changes nothing, the snapshot is the one
\* taken at construction, and every replay starts from the constructed state.
C9_ResetRestores ==
    LET constructed == GameState(StartSeconds)
        once == reset(gs, initial_state)
    IN  /\ once = constructed
        /\ reset(once, initial_state) = once
        /\ \A k \in DOMAIN constructed :
              k \in DOMAIN initial_state /\ initial_state[k] = constructed[k]
        /\ pc = "run" => gs = constructed

\* a second replay starts after a first one that changed the GameState
C9_Witness ==
    /\ pc = "run"
    /\ Len(outcomes) = 1

\* C10: with possession home or away, the offense_* accessors read the team
\* named by possession and the defense_* accessors read the other team.
C10_AccessorsFollowPossession ==
    gs.possession \in {"home", "away"} =>
        LET offense == gs[gs.possession]
            defense == gs[Other(gs.possession)]
        IN  /\ get_offense_score(gs) = offense.score
            /\ get_offense_timeouts(gs) = offense.timeouts
            /\ get_offense_division(gs) = offense.division
            /\ get_offense_elo_rating(gs) = offense.elo_rating
            /\ offense_is_power_five(gs) = offense.is_power_five
            /\ get_defense_score(gs) = defense.score
            /\ get_defense_timeouts(gs) = defense.timeouts
            /\ get_defense_division(gs) = defense.division
            /\ get_defense_elo_rating(gs) = defense.elo_rating
            /\ defense_is_power_five(gs) = defense.is_power_five

\* the away team has the ball and the two teams differ in score and timeouts
C10_Witness ==
    /\ gs.possession = "away"
    /\ gs.home.score # gs.away.score
    /\ gs.home.timeouts # gs.away.timeouts

\* C11 as stated: switch_possession() twice gives back the GameState it
\* started from, in every raw and derived field.
C11_SwitchTwiceIdentity ==
    switch_possession(switch_possession(gs)) = gs

\* C11 amended: with possession home or away, switch_possession() twice
\* gives back every field except num_plays_on_drive, which is 0.
C11_SwitchTwiceRestores ==
    gs.possession \in {"home", "away"} =>
        switch_possession(switch_possession(gs)) = [gs EXCEPT !.num_plays_on_drive = 0]

\* the away team has the ball in a drive with plays counted and a lead
C11_Witness ==
    /\ pc = "api"
    /\ gs.possession = "away"
    /\ gs.num_plays_on_drive > 0
    /\ gs.score_diff > 0

\* timeouts of both teams are in 0..3
TimeoutsInRange(g) ==
    /\ g.home.timeouts \in 0..3
    /\ g.away.timeouts \in 0..3

\* C12: each team's timeouts is in 0..3 in every state, no step of a replay
\* increases a team's timeouts (the step from "returned" is the driver's
\* reset), and a decrement_*_timeouts call for a side with 0 timeouts leaves
\* both counts as they are.
C12_TimeoutsRange ==
    [][/\ TimeoutsInRange(gs) /\ TimeoutsInRange(gs')
       /\ pc # "returned" => /\ gs'.home.timeouts <= gs.home.timeouts
                             /\ gs'.away.timeouts <= gs.away.timeouts
       /\ get_offense_timeouts(gs) = 0 =>
             /\ decrement_offense_timeouts(gs).home.timeouts = gs.home.timeouts
             /\ decrement_offense_timeouts(gs).away.timeouts = gs.away.timeouts
       /\ get_defense_timeouts(gs) = 0 =>
             /\ decrement_defense_timeouts(gs).home.timeouts = gs.home.timeouts
             /\ decrement_defense_timeouts(gs).away.timeouts = gs.away.timeouts
       /\ TimeoutsInRange(decrement_offense_timeouts(gs))
       /\ TimeoutsInRange(decrement_defense_timeouts(gs))]_vars

\* a team has used all three timeouts and a further cycle has started
C12_Witness ==
    /\ pc = "runoff"
    /\ get_offense_timeouts(gs) = 0
    /\ get_defense_timeouts(gs) = 3

\* C13: at the timeout step, for every draw of the two timeout oracles, a
\* side that has a timeout left and is drawn to call one ends the step with
\* one timeout fewer, a side that does not call keeps its count, and the
\* clock is stopped when either side called.
C13_TimeoutDecrements ==
    pc = "timeout" =>
        \A offense_calls \in BOOLEAN, defense_calls \in BOOLEAN :
            LET after == timeout(gs, offense_calls, defense_calls)
                offense_called == offense_calls /\ get_offense_timeouts(gs) > 0
                defense_called == defense_calls /\ get_defense_timeouts(gs) > 0
            IN  /\ get_offense_timeouts(after) =
                      get_offense_timeouts(gs) - (IF offense_called THEN 1 ELSE 0)
                /\ get_defense_timeouts(after) =
                      get_defense_timeouts(gs) - (IF defense_called THEN 1 ELSE 0)
                /\ (offense_called \/ defense_called) => ~clock_is_rolling(after)

\* seconds run off the clock since the GameState was constructed
Elapsed == initial_state.seconds_remaining - gs.seconds_remaining

C15_FourthDownRunTurnsOver ==
    [][(/\ pc = "dispatch" /\ next_action = "play"
        /\ prev_action' = "run_play"
        /\ Eq(gs.down, 4)
        /\ Y(RunYardsGained) < gs.distance
        /\ Y(RunYardsGained) < gs.yards_to_goal)
       => /\ gs'.possession = Other(gs.possession)
          /\ gs'.down = 1
          /\ gs'.distance = Y(FirstDownDistance)
          /\ gs'.yards_to_goal =
                Y(FieldLength) - (gs.yards_to_goal - Y(RunYardsGained))]_vars

\* C16: run() is entered with possession = None; once the coin toss at its
\* head is done, possession is home or away in every state until run() is
\* left (in particular when a play or a try attempt is dispatched).
C16_PossessionIsATeam ==
    /\ pc = "run" => gs.possession = None
    /\ pc \in {"loop", "timeout", "runoff", "penalty", "dispatch", "returned", "raised"}
          => gs.possession \in {"home", "away"}

\* in the second replay, after the reset to None and a new toss, a try
\* attempt is pending
C16_Witness ==
    /\ pc = "dispatch"
    /\ next_action = "extra_point_or_two_point_conversion"
    /\ Len(outcomes) = 1
    /\ gs.possession = "away"

\* seconds_remaining at the ends of quarters 1 to 3 and at the two-minute
\* warning
ClockStops == {2700, 1800, 900, 120}
\* the step takes seconds_remaining from above the boundary b to b or below
ReachesOrCrosses(b) == gs.seconds_remaining > b /\ gs'.seconds_remaining <= b

\* C17: a play that takes seconds_remaining to or across 2700, 1800, 900 or
\* 120 leaves the clock stopped for the start of the next cycle, and the
\* pre-snap runoff never carries the clock past such a boundary.
C17_ClockStopsAtBoundaries ==
    [][\A b \in ClockStops :
          /\ (pc = "dispatch" /\ ReachesOrCrosses(b)) => ~clock_is_rolling(gs')
          /\ (pc = "runoff" /\ gs.seconds_remaining > b) => gs'.seconds_remaining >= b]_vars

\* C18: every step of a cycle that changes a team's score or hands the ball
\* to the other team leaves the clock stopped.
C18_ClockStoppedAfterScoreOrTurnover ==
    [][(/\ pc \in {"timeout", "runoff", "penalty", "dispatch"}
        /\ \/ gs'.home.score # gs.home.score
           \/ gs'.away.score # gs.away.score
           \/ gs'.possession # gs.possession)
       => ~clock_is_rolling(gs')]_vars

\* the score of each team after the step minus before it
Gain(team) == gs'[team].score - gs[team].score

\* C19: scores are natural numbers; no step of a replay lowers a score (the
\* step from "returned" is the driver's reset); a step changes at most one
\* team's score, by 1, 2, 3 or 6; and with a team in possession
\* increment_offense_score(n) adds n to that team only and
\* increment_defense_score(n) adds n to the other team only.
C19_Scores ==
    [][/\ gs.home.score \in Nat /\ gs.away.score \in Nat
       /\ gs'.home.score \in Nat /\ gs'.away.score \in Nat
       /\ pc # "returned" =>
             /\ Gain("home") \in {0, 1, 2, 3, 6}
             /\ Gain("away") \in {0, 1, 2, 3, 6}
             /\ Gain("home") = 0 \/ Gain("away") = 0
       /\ gs.possession \in {"home", "away"} =>
             \A n \in ScoreValues :
                LET offense == gs.possession
                    defense == Other(gs.possession)
                    o == increment_offense_score(gs, n)
                    d == increment_defense_score(gs, n)
                IN  /\ o[offense].score = gs[offense].score + n
                    /\ o[defense].score = gs[defense].score
                    /\ d[defense].score = gs[defense].score + n
                    /\ d[offense].score = gs[offense].score]_vars

\* the offense was brought down in its own end zone and the defense has scored
C19_Witness ==
    /\ pc = "loop"
    /\ prev_action \in {"safety", "sack_safety", "punt_blocked_safety"}
    /\ get_defense_score(gs) = 2
    /\ get_offense_score(gs) = 0

\* target is 3 * fg + 7 * td with at most one field goal
SumOf3And7(target) ==
    \E fg \in {0, 1}, td \in 0..target : 3 * fg + 7 * td = target
\* target is 3 * fg + 8 * td8 + 7 * td7 with at most one field goal
SumOf3And7And8(target) ==
    \E fg \in {0, 1}, td8 \in 0..target, td7 \in 0..target :
        3 * fg + 8 * td8 + 7 * td7 = target

\* C20: _special_tie_condition(d) is true exactly when d < 0 and the deficit
\* -d is a sum of at most one 3 and any number of 8s and 7s, but not a sum
\* of at most one 3 and any number of 7s; it is false for d >= 0.
C20_SpecialTieCondition ==
    pc = "try_done" =>
        LET d == gs.score_diff
        IN  result = <<d < 0 /\ SumOf3And7And8(-d) /\ ~SumOf3And7(-d)>>

\* trailing by 8: a touchdown with a two-point conversion ties the game,
\* touchdowns with extra points and one field goal do not
C20_Witness ==
    /\ pc = "try_done"
    /\ gs.score_diff = -8
    /\ result = <<TRUE>>

\* C21: whatever triple the quantile regressors predict, the triangular
\* sampler of a kick has a draw: no play handler is left by an exception.
C21_SamplersNeverFail ==
    [][(pc = "dispatch" /\ next_action = "play") => pc' # "raised"]_vars

\* the scrimmage fields of g are unset or within their ranges
ScrimmageFieldsValid(g) ==
    /\ IsNan(g.down) \/ g.down \in 1..4
    /\ IsNan(g.distance) \/ g.distance >= 0
    /\ IsNan(g.yards_to_goal) \/ (Y(1) <= g.yards_to_goal /\ g.yards_to_goal <= Y(99))

\* C22: no call of a GameState mutator stores a down outside 1..4, a
\* negative distance or a yards_to_goal outside 1..99, lowers a score
\* (negative score increment) or raises the clock (negative seconds).
C22_MutatorsValidate ==
    [][/\ ScrimmageFieldsValid(gs')
       /\ gs'.home.score >= gs.home.score
       /\ gs'.away.score >= gs.away.score
       /\ gs'.seconds_remaining <= gs.seconds_remaining]_vars

\* C23: the kickoff step is one of the kickoff outcomes applied to the
\* state before it, and for every outcome the ball belongs afterwards to the
\* team that was not in possession when the receiving team ('defense')
\* recovered the kick, and to the team that was in possession when the
\* kicking team ('offense') recovered it.
C23_KickoffPossession ==
    [][(pc = "dispatch" /\ next_action = "kickoff") =>
          /\ \E k \in KickoffOutcomes :
                gs' = kickoff(gs, next_action, k[1], k[2], k[3]).gs
          /\ \A k \in KickoffOutcomes :
                kickoff(gs, next_action, k[1], k[2], k[3]).gs.possession =
                    IF k[3] = "defense" THEN Other(gs.possession) ELSE gs.possession]_vars

\* the kicking team has recovered its own onside kick at the 52
C23_Witness ==
    /\ pc = "loop"
    /\ prev_action = "kickoff"
    /\ gs.yards_to_goal = Y(52)
    /\ gs.seconds_remaining < initial_state.seconds_remaining

\* C24: the kickoff step applies a kickoff outcome (ytg, seconds, recovering
\* side): with ytg = 0 the recovering team's score grows by 6, the other
\* score stays and the try attempt is next; otherwise down = 1, distance =
\* 10, yards_to_goal = ytg and a play is next; either way the clock is
\* stopped and prev_action = kickoff.
C24_KickoffOutcome ==
    [][(pc = "dispatch" /\ next_action = "kickoff") =>
          \E k \in KickoffOutcomes :
             LET recovering == IF k[3] = "defense" THEN Other(gs.possession)
                               ELSE gs.possession
             IN  /\ gs' = kickoff(gs, next_action, k[1], k[2], k[3]).gs
                 /\ k[1] = 0 =>
                       /\ gs'[recovering].score = gs[recovering].score + 6
                       /\ gs'[Other(recovering)].score = gs[Other(recovering)].score
                       /\ next_action' = "extra_point_or_two_point_conversion"
                 /\ k[1] # 0 =>
                       /\ gs'.down = 1
                       /\ gs'.distance = Y(FirstDownDistance)
                       /\ gs'.yards_to_goal = Y(k[1])
                       /\ gs'.home.score = gs.home.score
                       /\ gs'.away.score = gs.away.score
                       /\ next_action' = "play"
                 /\ ~clock_is_rolling(gs')
                 /\ prev_action' = "kickoff"]_vars

\* the opening kickoff was returned for a touchdown by the away team
C24_Witness ==
    /\ pc = "loop"
    /\ prev_action = "kickoff"
    /\ next_action = "extra_point_or_two_point_conversion"
    /\ gs.possession = "away"
    /\ gs.away.score = 6
    /\ gs.home.score = 0

\* the handler result s is a touchdown of the team in possession in gs
IsOffensiveTouchdown(s) ==
    /\ s.gs[gs.possession].score = gs[gs.possession].score + 6
    /\ s.gs[Other(gs.possession)].score = gs[Other(gs.possession)].score
    /\ s.gs.possession = gs.possession
    /\ s.next_action = "extra_point_or_two_point_conversion"

\* C25: on any down 1 to 4, a run whose gain reaches the goal line, and a
\* completed pass whose gain reaches it, is a touchdown: 6 points for the
\* team that snapped the ball, which keeps possession, and the try attempt
\* is next.
C25_ScoringPlayIsTouchdown ==
    (/\ pc = "dispatch" /\ next_action = "play"
     /\ gs.down \in 1..4 /\ Gt(gs.yards_to_goal, 0)) =>
        /\ Y(RunYardsGained) >= gs.yards_to_goal => IsOffensiveTouchdown(run_play(gs))
        /\ Y(PassYardsGained) >= gs.yards_to_goal =>
              \A d \in PassDraws :
                 (~d.sack /\ d.pass_completion) =>
                     IsOffensiveTouchdown(
                         pass_play(gs, d.sack, d.sack_fumble, d.recovery_team,
                                   d.sample, d.sack_time, d.pass_completion))

\* C26: a step that ends in a defensive touchdown (blocked field goal or
\* blocked punt returned to the end zone, sack fumble recovered there by
\* the defense) adds exactly 6 points to the team that was on defense at the
\* snap, leaves the other score alone, and puts the scoring team in
\* possession for the try attempt.
C26_DefensiveTouchdown ==
    [][(/\ pc = "dispatch"
        /\ prev_action' \in {"field_goal_blocked_td", "punt_blocked_td", "sack_fumble_td"})
       => /\ gs'[Other(gs.possession)].score = gs[Other(gs.possession)].score + 6
          /\ gs'[gs.possession].score = gs[gs.possession].score
          /\ gs'.possession = Other(gs.possession)
          /\ next_action' = "extra_point_or_two_point_conversion"]_vars

\* C27: a run or a completed pass that gains at least the distance to go
\* without reaching the goal line is a first down: the offense keeps the
\* ball, down = 1 and distance = 10.
IsFirstDown(s) ==
    /\ s.gs.possession = gs.possession
    /\ s.gs.down = 1
    /\ s.gs.distance = Y(FirstDownDistance)
C27_GainOfDistanceIsFirstDown ==
    (/\ pc = "dispatch"
     /\ next_action = "play"
     /\ gs.down \in 1..4
     /\ Gt(gs.distance, 0))
    => /\ (Y(RunYardsGained) >= gs.distance /\ Y(RunYardsGained) < gs.yards_to_goal)
             => IsFirstDown(run_play(gs))
       /\ (Y(PassYardsGained) >= gs.distance /\ Y(PassYardsGained) < gs.yards_to_goal)
             => \A d \in PassDraws :
                   (~d.sack /\ d.pass_completion)
                      => IsFirstDown(pass_play(gs, d.sack, d.sack_fumble,
                                               d.recovery_team, d.sample,
                                               d.sack_time, d.pass_completion))

\* C28: a run, a pass (complete or incomplete), a sack or a kneel snapped on
\* down d <= 3 that neither scores, nor gains the distance to go, nor
\* changes possession leaves down = d + 1; a pass advances the down exactly
\* as a run does.
C28_PlayAdvancesDown ==
    [][(/\ pc = "dispatch"
        /\ next_action = "play"
        /\ gs.down \in 1..3
        /\ prev_action' \in {"run_play", "pass_play", "sack", "qb_kneel"}
        /\ gs'.possession = gs.possession
        /\ gs'.home.score = gs.home.score
        /\ gs'.away.score = gs.away.score
        /\ Gt(gs'.distance, 0))
       => gs'.down = gs.down + 1]_vars

\* C29: the ball goes over on downs only after a play snapped on 4th down: a
\* run, a pass without a sack or a kneel snapped on down 1, 2 or 3 never
\* changes possession.
C29_NoTurnoverBeforeFourthDown ==
    [][(/\ pc = "dispatch"
        /\ next_action = "play"
        /\ gs.down \in 1..3
        /\ prev_action' \in {"run_play", "pass_play", "qb_kneel", "play"})
       => gs'.possession = gs.possession]_vars

\* C30: an offensive loss-of-down penalty on 4th down turns the ball over
\* with the field flipped: the new offense's yards_to_goal is 100 minus the
\* penalised offense's yards_to_goal (taken before or after the yardage is
\* assessed), with down = 1 and distance = 10.
C30_PenaltyTurnoverFlipsField ==
    [][(/\ pc = "penalty"
        /\ gs.down = 4
        /\ \E yards \in PenaltyYards \ {0} : gs' = penalty(gs, yards, 0, TRUE, FALSE))
       => /\ gs'.possession = Other(gs.possession)
          /\ gs'.down = 1
          /\ gs'.distance = Y(FirstDownDistance)
          /\ \/ gs'.yards_to_goal = Y(FieldLength) - gs.yards_to_goal
             \/ \E yards \in PenaltyYards \ {0} :
                   /\ gs' = penalty(gs, yards, 0, TRUE, FALSE)
                   /\ gs'.yards_to_goal =
                         Y(FieldLength) - penalty(gs, yards, 0, FALSE, FALSE).yards_to_goal]_vars

\* C31: penalty yardage obeys the half-distance rule.  At yards_to_goal = y
\* in 1..99 an offensive penalty of D yards moves the ball back D yards, or
\* half of (100 - y) when y + D would reach or pass 100; a defensive penalty
\* moves it forward D yards, or half of y when y - D <= 0; and for every D
\* in {5, 10, 15}, alone or with both penalties drawn in the same cycle, the
\* resulting yards_to_goal stays within [1, 99].
C31_HalfDistanceRule ==
    (/\ pc = "penalty"
     /\ Le(Y(1), gs.yards_to_goal)
     /\ Le(gs.yards_to_goal, Y(99)))
    => \A yards_lost_offense \in PenaltyYards, yards_lost_defense \in PenaltyYards :
          LET y == gs.yards_to_goal
              after == penalty(gs, yards_lost_offense, yards_lost_defense,
                               FALSE, FALSE).yards_to_goal
          IN  (/\ OffenseHalfDistance(gs, yards_lost_offense) => Halvable(Y(FieldLength) - y)
               /\ DefenseHalfDistance(gs, yards_lost_defense) => Halvable(y))
              => /\ after >= Y(1)
                 /\ after <= Y(99)
                 /\ (yards_lost_offense > 0 /\ yards_lost_defense = 0)
                       => after = IF y + Y(yards_lost_offense) >= Y(FieldLength)
                                  THEN y + Half(Y(FieldLength) - y)
                                  ELSE y + Y(yards_lost_offense)
                 /\ (yards_lost_defense > 0 /\ yards_lost_offense = 0)
                       => after = IF y - Y(yards_lost_defense) <= 0
                                  THEN y - Half(y)
                                  ELSE y - Y(yards_lost_defense)

\* C32: in a cycle whose next_action is the kickoff or the try attempt the
\* penalty step leaves possession, down, distance, yards_to_goal and
\* num_plays_on_drive unchanged, so a penalty never changes which team kicks
\* off or attempts the try.
C32_PenaltyOnlyBeforeScrimmage ==
    [][(/\ pc = "penalty"
        /\ next_action \in {"kickoff", "extra_point_or_two_point_conversion"})
       => /\ gs'.possession = gs.possession
          /\ gs'.down = gs.down
          /\ gs'.distance = gs.distance
          /\ gs'.yards_to_goal = gs.yards_to_goal
          /\ gs'.num_plays_on_drive = gs.num_plays_on_drive]_vars

\* C33: an unblocked field goal attempt has exactly two outcomes, both with
\* the clock stopped.  Made: the kicking team's score grows by exactly 3,
\* the other score and possession are unchanged and next_action = kickoff.
\* Missed (always when yards_to_goal > 48): no score changes, possession
\* switches, down = 1, distance = 10, yards_to_goal = 100 - the previous
\* yards_to_goal and next_action = play.
FieldGoalMade(s) ==
    /\ s.gs[gs.possession].score = gs[gs.possession].score + 3
    /\ s.gs[Other(gs.possession)].score = gs[Other(gs.possession)].score
    /\ s.gs.possession = gs.possession
    /\ s.next_action = "kickoff"
    /\ ~clock_is_rolling(s.gs)
FieldGoalMissed(s) ==
    /\ s.gs.home.score = gs.home.score
    /\ s.gs.away.score = gs.away.score
    /\ s.gs.possession = Other(gs.possession)
    /\ s.gs.down = 1
    /\ s.gs.distance = Y(FirstDownDistance)
    /\ s.gs.yards_to_goal = Y(FieldLength) - gs.yards_to_goal
    /\ s.next_action = "play"
    /\ ~clock_is_rolling(s.gs)
SafetyTags == {"safety", "sack_safety", "punt_blocked_safety"}
C34_SafetyStep ==
    (/\ pc = "dispatch"
     /\ next_action = "play"
     /\ prev_action' \in SafetyTags)
    => /\ gs'[Other(gs.possession)].score = gs[Other(gs.possession)].score + 2
       /\ gs'[gs.possession].score = gs[gs.possession].score
       /\ gs'.possession = gs.possession
       /\ ~clock_is_rolling(gs')
       /\ next_action' = "kickoff"
\* at the kickoff that follows the first score of a game, a safety, the team
\* about to kick is the one that gave up the 2 points
C34_ScoredUponTeamKicks ==
    (/\ pc = "dispatch"
     /\ next_action = "kickoff"
     /\ prev_action \in SafetyTags
     /\ gs.home.score + gs.away.score = 2)
    => gs[gs.possession].score = 0
C34_Safety == [][C34_SafetyStep]_vars /\ []C34_ScoredUponTeamKicks

\* C35: a QB kneel on down d <= 3 loses exactly one yard: yards_to_goal
\* and distance both grow by 1, down becomes d + 1, exactly 3 seconds are
\* consumed (the clock never goes below 0), the clock is left running,
\* possession and scores are unchanged and prev_action = qb_kneel.
C35_KneelLosesOneYard ==
    [][(/\ pc = "dispatch"
        /\ next_action = "play"
        /\ gs.down \in 1..3
        /\ gs' = qb_kneel(gs).gs
        /\ prev_action' = "qb_kneel")
       => /\ gs'.yards_to_goal = gs.yards_to_goal + Y(1)
          /\ gs'.distance = gs.distance + Y(1)
          /\ gs'.down = gs.down + 1
          /\ gs'.seconds_remaining = Max(0, gs.seconds_remaining - 3)
          /\ clock_is_rolling(gs')
          /\ gs'.possession = gs.possession
          /\ gs'.home.score = gs.home.score
          /\ gs'.away.score = gs.away.score]_vars

\* C36: the pre-snap runoff is charged once per cycle and only if the clock
\* is rolling after the timeout step: exactly 40 seconds if prev_action is
\* qb_kneel, exactly 25 seconds otherwise (clamped at 0); with the clock
\* stopped, also by a timeout called in this cycle, nothing is charged.
TimeoutCalled(g, offense_calls, defense_calls) ==
    \/ offense_calls /\ get_offense_timeouts(g) > 0
    \/ defense_calls /\ get_defense_timeouts(g) > 0
C36_RunoffStep ==
    /\ pc = "runoff"
          => /\ pc' = "penalty"
             /\ gs'.seconds_remaining =
                   IF clock_is_rolling(gs)
                   THEN Max(0, gs.seconds_remaining
                                  - (IF prev_action = "qb_kneel" THEN 40 ELSE 25))
                   ELSE gs.seconds_remaining
    /\ pc \in {"loop", "timeout", "penalty"}
          => gs'.seconds_remaining = gs.seconds_remaining
    /\ pc = "timeout"
          => /\ pc' = "runoff"
             /\ \A offense_calls \in BOOLEAN, defense_calls \in BOOLEAN :
                   (/\ gs' = timeout(gs, offense_calls, defense_calls)
                    /\ TimeoutCalled(gs, offense_calls, defense_calls))
                      => ~clock_is_rolling(gs')
C37_DefenseRecoveryTakesBall ==
    (/\ pc = "dispatch"
     /\ next_action = "play"
     /\ gs.down \in 1..4)
    => \A d \in PassDraws :
          (d.sack /\ d.sack_fumble /\ d.recovery_team = "defense")
             => LET s == pass_play(gs, d.sack, d.sack_fumble, d.recovery_team,
                                   d.sample, d.sack_time, d.pass_completion)
                IN  /\ s.gs.possession = Other(gs.possession)
                    /\ ~clock_is_rolling(s.gs)
                    /\ \/ s.next_action = "extra_point_or_two_point_conversion"
                       \/ s.next_action = "play" /\ s.gs.down = 1

\* C38: num_plays_on_drive counts the plays of the current drive: it is 0
\* right after every possession change, and each run play by the offense
\* that keeps the ball increases it by exactly one (the timeout oracle is
\* handed this count as the number of prior plays on the drive).
C38_PlayCountStep ==
    /\ (pc # "returned" /\ gs'.possession # gs.possession)
          => gs'.num_plays_on_drive = 0
    /\ (/\ pc = "dispatch"
        /\ next_action = "play"
        /\ prev_action' = "run_play"
        /\ gs' = run_play(gs).gs
        /\ gs'.possession = gs.possession)
          => gs'.num_plays_on_drive = gs.num_plays_on_drive + 1
C38_PlayCountFollowsDrive == [][C38_PlayCountStep]_vars

\* C39: inside every scoring transition the sub-steps come in a fixed
\* order: the score is updated first, then possession is switched, then
\* next_action is set, then the clock is stopped or started; no scoring
\* transition switches possession or stops the clock before the points are
\* added.
OrderRank(call) ==
    CASE call.op \in {"increment_offense_score", "increment_defense_score"} -> 1
      [] call.op = "switch_possession" -> 2
      [] call.op = "set_next_action" -> 3
      [] call.op \in {"stop_clock", "start_clock"} -> 4
      [] OTHER -> 0
C39_OrderStep ==
    (/\ pc \in ScoringBranches
     /\ flags' = flags + 1)
    => LET call == ScoringStatements(pc)[flags + 1]
       IN  /\ \A i \in 1..flags :
                 LET earlier == ScoringStatements(pc)[i]
                 IN  (OrderRank(earlier) > 0 /\ OrderRank(call) > 0)
                        => OrderRank(earlier) <= OrderRank(call)
           /\ (gs'.possession # gs.possession \/ call.op = "stop_clock")
                 => \E i \in 1..flags : OrderRank(ScoringStatements(pc)[i]) = 1
C39_ScoringOrder == [][C39_OrderStep]_vars
====
